---- MODULE Spec2Model ----
(***************************************************************************)
(* Authentication core of the DrugInsightAI API service:                   *)
(*   services/api/src/middleware/auth.py   AuthenticationService,          *)
(*                                          AuthMiddleware                  *)
(*   services/api/src/routes/auth.py       login_user, refresh_token       *)
(*   services/api/src/routes/users.py      get_current_user_profile        *)
(*   services/api/src/routes/drugs.py      drug routes                     *)
(*   services/api/src/routes/health.py     get_health_status, get_metrics  *)
(*   services/api/src/database.py          get_db_session                  *)
(*   services/api/src/exceptions.py        exception handlers              *)
(*                                                                         *)
(* Python dicts are functions over strings, Optional[...] results use the  *)
(* value NoneDict / None, a raised exception is a result record with       *)
(* raised = TRUE.  Time is counted in minutes.                             *)
(***************************************************************************)
EXTENDS Integers, Sequences, FiniteSets, TLC

VARIABLES now, times, settings, req, codec, call, store, database

vars == <<now, times, settings, req, codec, call, store, database>>

----------------------------------------------------------------------------
(* Bounds of the model *)

\* number of clock advances explored
MaxTicks == 2

----------------------------------------------------------------------------
(* Python values *)

None == "<None>"
NoneDict == [none |-> TRUE]

\* dict.get(k): None when the key is absent
Get(d, k) == IF k \in DOMAIN d THEN d[k] ELSE None

\* d.copy(); copy.update(e): entries of e win
Update(d, e) ==
    [k \in (DOMAIN d) \cup (DOMAIN e) |-> IF k \in DOMAIN e THEN e[k] ELSE d[k]]

\* truth value of an Optional[dict]: None and {} are both falsy
TruthyDict(d) == d # NoneDict /\ DOMAIN d # {}

\* truth value of an Optional[str]
TruthyStr(s) == s # None /\ s # ""

\* results of calls that may raise
Return(v) == [raised |-> FALSE, value |-> v]
Raise(e) == [raised |-> TRUE, exc |-> e]

----------------------------------------------------------------------------
(* Configuration: config.py Settings *)

secret_key == "dev-secret-key"
algorithm == "HS256"
access_token_expire_minutes == 30
refresh_token_expire_days == 7
MinutesPerDay == 1440

\* validate_security_settings leaves enable_aws_auth on only when the pool
\* and client ids are configured; both flags are free otherwise
SettingsSpace == [enable_local_auth : BOOLEAN, enable_aws_auth : BOOLEAN]

----------------------------------------------------------------------------
(* Token codec: python-jose encode / decode as used by AuthenticationService *)

\* HS256 signature: a function of the key and the signed content
HMAC(key, claims) == [key |-> key, msg |-> claims]

\* jose_jwt.encode(claims, key, algorithm)
jose_encode(claims, key, alg) ==
    [jwt |-> TRUE, alg |-> alg, claims |-> claims, signature |-> HMAC(key, claims)]

\* a string that is not three base64url segments
Opaque(s) == [jwt |-> FALSE, raw |-> s]

\* jose_jwt.decode with a leeway of one minute on exp
jose_decode_with_leeway(token, key, algs, t) ==
    IF ~token.jwt THEN Raise("JWTError")
    ELSE IF token.alg \notin algs THEN Raise("JWTError")
    ELSE IF token.signature # HMAC(key, token.claims) THEN Raise("JWTError")
    ELSE IF "exp" \in DOMAIN token.claims /\ token.claims.exp < t - 1
         THEN Raise("ExpiredSignatureError")
    ELSE Return(token.claims)

\* jose_jwt.decode(token, key, algorithms): structure, algorithm, signature,
\* then exp against the clock with leeway 0 (exp < now fails)
jose_decode(token, key, algs, t) ==
    IF ~token.jwt THEN Raise("JWTError")
    ELSE IF token.alg \notin algs THEN Raise("JWTError")
    ELSE IF token.signature # HMAC(key, token.claims) THEN Raise("JWTError")
    ELSE IF "exp" \in DOMAIN token.claims /\ token.claims.exp < t
         THEN Raise("ExpiredSignatureError")
    ELSE Return(token.claims)

\* create_access_token in which the caller's entries win over exp and type
create_access_token_caller_wins(data, t) ==
    LET expire == t + access_token_expire_minutes
        to_encode == Update([exp |-> expire, type |-> "access"], data)
    IN  [token |-> jose_encode(to_encode, secret_key, algorithm), data |-> data]

\* create_access_token with the default expires_delta.  to_encode is a copy
\* of the caller's dict; the result carries the token and the caller's dict
\* as it is after the call.
create_access_token(data, t) ==
    LET expire == t + access_token_expire_minutes
        to_encode == Update(data, [exp |-> expire, type |-> "access"])
    IN  [token |-> jose_encode(to_encode, secret_key, algorithm), data |-> data]

create_refresh_token(data, t) ==
    LET expire == t + refresh_token_expire_days * MinutesPerDay
        to_encode == Update(data, [exp |-> expire, type |-> "refresh"])
    IN  [token |-> jose_encode(to_encode, secret_key, algorithm), data |-> data]

\* AuthenticationService.verify_token: JWTError becomes None
verify_token(token, t) ==
    LET r == jose_decode(token, secret_key, {algorithm}, t)
    IN  IF r.raised THEN NoneDict ELSE r.value

\* AuthenticationService.verify_cognito_token: PyJWT decode with
\* verify_signature False checks neither signature, exp nor audience; any
\* decoding error is caught and becomes None.  cognito_client is created in
\* __init__ exactly when enable_aws_auth is set.
verify_cognito_token(token, cfg) ==
    IF ~cfg.enable_aws_auth THEN NoneDict
    ELSE IF ~token.jwt THEN NoneDict
    ELSE token.claims

----------------------------------------------------------------------------
(* Password hasher: passlib CryptContext with the bcrypt scheme *)

Salts == {"salt1", "salt2"}

\* a string longer than 72 bytes: its first 72 bytes and the rest
Long(head, tail) == [jwt |-> FALSE, raw |-> head, tail |-> tail]

IsLong(plain) == "tail" \in DOMAIN plain

\* bcrypt reads the first 72 bytes of the secret and ignores the rest
Truncate72(plain) == IF IsLong(plain) THEN Opaque(plain.raw) ELSE plain

\* the digest of a plaintext under a given salt
bcrypt(plain, salt) ==
    [scheme |-> "bcrypt", salt |-> salt, digest |-> <<Truncate72(plain), salt>>]

\* get_password_hash draws a fresh salt on every call
get_password_hash(plain, salt) == bcrypt(plain, salt)

\* verify that accepts every digest of the scheme
verify_password_scheme_only(plain, hashed) == hashed.scheme = "bcrypt"

\* verify_password re-hashes with the salt kept in the stored digest
verify_password(plain, hashed) == bcrypt(plain, hashed.salt) = hashed

----------------------------------------------------------------------------
(* Credential store content: users and api_keys tables *)

UserRow(id, role, active) ==
    [id |-> id, email |-> id \o "@example.com",
     password_hash |-> bcrypt(Opaque("password-" \o id), "salt1"),
     first_name |-> "First-" \o id, last_name |-> "Last-" \o id,
     role |-> role, organization |-> "org-" \o id, is_active |-> active]

InitialUsers == {UserRow("u1", "user", TRUE), UserRow("u2", "admin", TRUE),
                 UserRow("u3", "user", FALSE)}

\* the users table as it is now
users == store.users

\* expires_at = -1 stands for NULL
NullTime == -1

ApiKeyRow(raw, uid, active, expires) ==
    [key_hash |-> bcrypt(Opaque(raw), "salt1"), user_id |-> uid,
     is_active |-> active, expires_at |-> expires]

InitialApiKeys ==
    {ApiKeyRow("key-u1", "u1", TRUE, NullTime),
     ApiKeyRow("key-u2-expiring", "u2", TRUE, access_token_expire_minutes),
     ApiKeyRow("key-u1-revoked", "u1", FALSE, NullTime)}

\* the api_keys table as it is now
api_keys == store.api_keys

\* the provisioned content of the credential store
InitialStore == [users |-> InitialUsers, api_keys |-> InitialApiKeys]

\* database.DatabaseManager.__init__: the module-level manager before
\* connect(). The attributes are None or the object assigned to them (after
\* connect(), a connect() that raised, or disconnect()); last_call records
\* which of the lifecycle methods was called last
DatabaseManager ==
    [engine |-> None, async_session_factory |-> None, redis_client |-> None,
     last_call |-> "__init__"]

\* what the servers do when connect() tests them
ConnectOutcomes == {"up", "database_down", "redis_down"}

\* DatabaseManager.connect: the engine and the session factory are assigned
\* before the connection test, the Redis client after the database test and
\* before its ping; a failing test is logged and re-raised
connect(self, outcome) ==
    LET created == [self EXCEPT !.engine = "AsyncEngine",
                                !.async_session_factory = "async_sessionmaker"]
        with_redis == [created EXCEPT !.redis_client = "Redis"]
    IN  CASE outcome = "database_down" ->
                 [self |-> [created EXCEPT !.last_call = "connect raised"],
                  result |-> Raise("Exception")]
          [] outcome = "redis_down" ->
                 [self |-> [with_redis EXCEPT !.last_call = "connect raised"],
                  result |-> Raise("Exception")]
          [] OTHER ->
                 [self |-> [with_redis EXCEPT !.last_call = "connect"],
                  result |-> Return(None)]

\* DatabaseManager.disconnect: disposes of the engine's pool and closes the
\* Redis client's connections; no attribute is assigned
disconnect(self) ==
    [self |-> [self EXCEPT !.last_call = "disconnect"], result |-> Return(None)]

\* a session made by async_session_factory(): a transaction is in progress
AsyncSession == [closed |-> FALSE, tx |-> "begun"]

\* AsyncSession.commit
commit(session) == [session EXCEPT !.tx = "committed"]

\* AsyncSession.rollback
rollback(session) ==
    [session EXCEPT !.tx = IF @ = "begun" THEN "rolled back" ELSE @]

\* AsyncSession.close: a transaction still in progress is rolled back and
\* the connection goes back to the pool
close(session) ==
    [session EXCEPT !.closed = TRUE,
                    !.tx = IF @ = "begun" THEN "rolled back" ELSE @]

\* how the body of `async with database.get_session()` ends: it completes,
\* raises an Exception, or is cancelled (CancelledError is a BaseException)
Bodies == {"returns", "raises", "cancelled"}

\* get_session whose finally clause is missing: only a body that completes
\* closes the session
get_session_without_finally(self, body, commit_ok) ==
    IF self.async_session_factory = None
    THEN [raised |-> TRUE, exc |-> "RuntimeError", session |-> NoneDict,
          calls |-> <<>>]
    ELSE CASE body = "returns" /\ commit_ok ->
                 [raised |-> FALSE, exc |-> None,
                  session |-> close(commit(AsyncSession)),
                  calls |-> <<"commit", "close">>]
           [] body = "returns" /\ ~commit_ok ->
                 [raised |-> TRUE, exc |-> "commit",
                  session |-> rollback(AsyncSession),
                  calls |-> <<"commit", "rollback">>]
           [] body = "raises" ->
                 [raised |-> TRUE, exc |-> "body",
                  session |-> rollback(AsyncSession),
                  calls |-> <<"rollback">>]
           [] OTHER ->
                 [raised |-> TRUE, exc |-> "CancelledError",
                  session |-> AsyncSession,
                  calls |-> <<>>]

\* DatabaseManager.get_session used as `async with`: RuntimeError without a
\* session factory; else the body runs, then commit, or rollback and
\* re-raise on an Exception (of the body or of commit), and close in every
\* case. calls lists the session methods called, exc names where the
\* exception that leaves the block was raised
get_session(self, body, commit_ok) ==
    IF self.async_session_factory = None
    THEN [raised |-> TRUE, exc |-> "RuntimeError", session |-> NoneDict,
          calls |-> <<>>]
    ELSE CASE body = "returns" /\ commit_ok ->
                 [raised |-> FALSE, exc |-> None,
                  session |-> close(commit(AsyncSession)),
                  calls |-> <<"commit", "close">>]
           [] body = "returns" /\ ~commit_ok ->
                 [raised |-> TRUE, exc |-> "commit",
                  session |-> close(rollback(AsyncSession)),
                  calls |-> <<"commit", "rollback", "close">>]
           [] body = "raises" ->
                 [raised |-> TRUE, exc |-> "body",
                  session |-> close(rollback(AsyncSession)),
                  calls |-> <<"rollback", "close">>]
           [] OTHER ->
                 [raised |-> TRUE, exc |-> "CancelledError",
                  session |-> close(AsyncSession),
                  calls |-> <<"close">>]

\* DatabaseManager.get_redis
get_redis(self) ==
    IF self.redis_client = None THEN Raise("RuntimeError")
    ELSE Return(self.redis_client)

----------------------------------------------------------------------------
(* Store sessions *)

\* database.get_db_session is an async generator function without
\* @asynccontextmanager: the object it returns has no __aenter__/__aexit__
get_db_session == [aenter |-> FALSE]

\* `async with cm as db:` raises TypeError before the body when cm does not
\* implement the asynchronous context manager protocol
AsyncWith(cm) == IF cm.aenter THEN Return("session") ELSE Raise("TypeError")

\* the WHERE clause shared by the two api_keys queries
ApiKeyMatches(row, key_hash, t) ==
    /\ row.key_hash = key_hash
    /\ row.is_active
    /\ (row.expires_at = NullTime \/ row.expires_at > t)

\* AuthMiddleware._verify_api_key
_verify_api_key(api_key, t, salt) ==
    IF AsyncWith(get_db_session).raised THEN AsyncWith(get_db_session)
    ELSE Return(\E row \in api_keys :
                    ApiKeyMatches(row, get_password_hash(api_key, salt), t))

\* AuthMiddleware._get_api_key_user
_get_api_key_user(api_key, t, salt) ==
    IF AsyncWith(get_db_session).raised THEN AsyncWith(get_db_session)
    ELSE LET rows == {u \in users : \E ak \in api_keys :
                        /\ u.id = ak.user_id
                        /\ ApiKeyMatches(ak, get_password_hash(api_key, salt), t)}
         IN  IF rows = {} THEN Return(NoneDict)
             ELSE LET user_data == CHOOSE u \in rows : TRUE
                  IN  Return([user_id |-> user_data.id, email |-> user_data.email,
                              first_name |-> user_data.first_name,
                              last_name |-> user_data.last_name,
                              role |-> user_data.role,
                              organization |-> user_data.organization,
                              auth_type |-> "api_key"])

----------------------------------------------------------------------------
(* Credential resolver *)

\* a result together with the calls that were made to reach it, in order
Attempted(result, steps) ==
    [k \in (DOMAIN result) \cup {"steps"} |->
        IF k = "steps" THEN steps ELSE result[k]]

\* _verify_token that looks the credential up as an API key before it tries
\* to decode it
_verify_token_api_key_first(token, t, cfg, salt1, salt2) ==
    LET local == verify_token(token, t)
        cognito == verify_cognito_token(token, cfg)
        found == _verify_api_key(token, t, salt1)
        tried == IF cfg.enable_aws_auth
                 THEN <<"_verify_api_key", "verify_token", "verify_cognito_token">>
                 ELSE <<"_verify_api_key", "verify_token">>
    IN  IF found.raised THEN Attempted(found, <<"_verify_api_key">>)
        ELSE IF found.value
        THEN Attempted(_get_api_key_user(token, t, salt2),
                       <<"_verify_api_key", "_get_api_key_user">>)
        ELSE IF TruthyDict(local)
        THEN Attempted(Return(local), <<"_verify_api_key", "verify_token">>)
        ELSE IF cfg.enable_aws_auth /\ TruthyDict(cognito)
        THEN Attempted(Return(cognito), tried)
        ELSE Attempted(Return(NoneDict), tried)

\* AuthMiddleware._verify_token: local JWT, then Cognito when enabled, then
\* the API-key lookups.  salt1/salt2 are the salts drawn by the two
\* get_password_hash calls.  The result carries the methods that were
\* called: verify_token, verify_cognito_token, _verify_api_key,
\* _get_api_key_user.
_verify_token(token, t, cfg, salt1, salt2) ==
    LET local == verify_token(token, t)
        cognito == verify_cognito_token(token, cfg)
        found == _verify_api_key(token, t, salt1)
        tried == IF cfg.enable_aws_auth
                 THEN <<"verify_token", "verify_cognito_token">>
                 ELSE <<"verify_token">>
    IN  IF TruthyDict(local) THEN Attempted(Return(local), <<"verify_token">>)
        ELSE IF cfg.enable_aws_auth /\ TruthyDict(cognito)
        THEN Attempted(Return(cognito), tried)
        ELSE IF found.raised THEN Attempted(found, Append(tried, "_verify_api_key"))
        ELSE IF found.value
        THEN Attempted(_get_api_key_user(token, t, salt2),
                       tried \o <<"_verify_api_key", "_get_api_key_user">>)
        ELSE Attempted(Return(NoneDict), Append(tried, "_verify_api_key"))

----------------------------------------------------------------------------
(* Responses *)

\* Response(content=..., status_code=401) built inside AuthMiddleware.dispatch
GateReject(message) ==
    [status |-> 401, body |-> [error |-> "AUTHENTICATION_ERROR", message |-> message]]

\* exceptions.AuthenticationError
AuthenticationError(message) ==
    [raised |-> TRUE, exc |-> "AuthenticationError", status_code |-> 401,
     error_code |-> "AUTHENTICATION_ERROR", message |-> message]

\* exceptions.AuthorizationError
AuthorizationError(message) ==
    [raised |-> TRUE, exc |-> "AuthorizationError", status_code |-> 403,
     error_code |-> "AUTHORIZATION_ERROR", message |-> message]

\* exceptions.api_exception_handler
api_exception_handler(exc) ==
    [status |-> exc.status_code,
     body |-> [error |-> exc.error_code, message |-> exc.message, details |-> "{}"]]

\* exceptions.general_exception_handler: every exception that is not an
\* APIException, wherever it was raised
general_exception_handler ==
    [status |-> 500,
     body |-> [error |-> "INTERNAL_ERROR",
               message |-> "An internal server error occurred", details |-> "{}"]]

\* fastapi.exceptions.RequestValidationError, raised while the parameters of
\* a route are validated
RequestValidationError == Raise("RequestValidationError")

\* exceptions.validation_exception_handler
validation_exception_handler ==
    [status |-> 422,
     body |-> [error |-> "VALIDATION_ERROR", message |-> "Invalid request data",
               details |-> "validation_errors"]]

\* the response a raised exception is turned into (register_exception_handlers)
HandleException(r) ==
    IF "status_code" \in DOMAIN r THEN api_exception_handler(r)
    ELSE IF r = RequestValidationError THEN validation_exception_handler
    ELSE general_exception_handler

Ok(body) == [status |-> 200, body |-> body]

----------------------------------------------------------------------------
(* Request gate: AuthMiddleware *)

\* a path is the sequence of its pieces; the pieces are cut so that every
\* public route is a sequence of whole pieces
public_routes == {<<"/health">>, <<"/metrics">>, <<"/auth", "/login">>,
                  <<"/auth", "/refresh">>, <<"/docs">>, <<"/redoc">>,
                  <<"/openapi.json">>}

\* str.startswith
StartsWith(path, prefix) ==
    Len(prefix) <= Len(path) /\ SubSeq(path, 1, Len(prefix)) = prefix

IsPublic(path) == \E route \in public_routes : StartsWith(path, route)

\* _extract_token that looks at X-API-Key before Authorization
_extract_token_api_key_first(headers) ==
    IF "X-API-Key" \in DOMAIN headers /\ headers["X-API-Key"] # Opaque("")
    THEN headers["X-API-Key"]
    ELSE IF /\ "Authorization" \in DOMAIN headers
            /\ Len(headers["Authorization"]) >= 2
            /\ headers["Authorization"][1] = Opaque("Bearer")
    THEN headers["Authorization"][2]
    ELSE NoneDict

\* A header value is the sequence authorization.split(" ") would return;
\* it starts with "Bearer " exactly when the first piece is "Bearer" and a
\* second piece exists.
\* AuthMiddleware._extract_token: the token, or Opaque("") / NoneDict (both
\* falsy) when there is none
_extract_token(headers) ==
    IF /\ "Authorization" \in DOMAIN headers
       /\ Len(headers["Authorization"]) >= 2
       /\ headers["Authorization"][1] = Opaque("Bearer")
    THEN headers["Authorization"][2]
    ELSE IF "X-API-Key" \in DOMAIN headers /\ headers["X-API-Key"] # Opaque("")
    THEN headers["X-API-Key"]
    ELSE NoneDict

\* `if not token`
NoToken(token) == token = NoneDict \/ token = Opaque("")

\* dispatch without the `if not token` answer: a request without a
\* credential is handed to call_next
dispatch_missing_token_passes(request, t, cfg, salt1, salt2) ==
    LET token == _extract_token(request.headers)
        user_data == _verify_token(token, t, cfg, salt1, salt2)
    IN  IF IsPublic(request.path) \/ NoToken(token)
        THEN [next |-> TRUE, state |-> request.state, response |-> NoneDict,
              token |-> NoneDict, user_data |-> Return(NoneDict)]
        ELSE IF user_data.raised
        THEN [next |-> FALSE, state |-> request.state,
              response |-> HandleException(user_data),
              token |-> token, user_data |-> user_data]
        ELSE IF ~TruthyDict(user_data.value)
        THEN [next |-> FALSE, state |-> request.state,
              response |-> GateReject("Invalid or expired token"),
              token |-> token, user_data |-> user_data]
        ELSE [next |-> TRUE,
              state |-> Update(request.state, [current_user |-> user_data.value]),
              response |-> NoneDict,
              token |-> token, user_data |-> user_data]

\* dispatch that swallows an exception of the resolver and lets the request
\* through
dispatch_fail_open(request, t, cfg, salt1, salt2) ==
    LET token == _extract_token(request.headers)
        user_data == _verify_token(token, t, cfg, salt1, salt2)
    IN  IF IsPublic(request.path)
        THEN [next |-> TRUE, state |-> request.state, response |-> NoneDict,
              token |-> NoneDict, user_data |-> Return(NoneDict)]
        ELSE IF NoToken(token)
        THEN [next |-> FALSE, state |-> request.state,
              response |-> GateReject("No authentication token provided"),
              token |-> token, user_data |-> Return(NoneDict)]
        ELSE IF user_data.raised
        THEN [next |-> TRUE, state |-> request.state, response |-> NoneDict,
              token |-> token, user_data |-> user_data]
        ELSE IF ~TruthyDict(user_data.value)
        THEN [next |-> FALSE, state |-> request.state,
              response |-> GateReject("Invalid or expired token"),
              token |-> token, user_data |-> user_data]
        ELSE [next |-> TRUE,
              state |-> Update(request.state, [current_user |-> user_data.value]),
              response |-> NoneDict,
              token |-> token, user_data |-> user_data]

\* dispatch that extracts and resolves the credential before it looks at
\* the path, and attaches what it resolved
dispatch_resolves_on_public(request, t, cfg, salt1, salt2) ==
    LET token == _extract_token(request.headers)
        user_data == _verify_token(token, t, cfg, salt1, salt2)
        resolved == ~NoToken(token) /\ ~user_data.raised /\ TruthyDict(user_data.value)
    IN  IF IsPublic(request.path)
        THEN IF resolved
             THEN [next |-> TRUE,
                   state |-> Update(request.state, [current_user |-> user_data.value]),
                   response |-> NoneDict, token |-> token, user_data |-> user_data]
             ELSE [next |-> TRUE, state |-> request.state, response |-> NoneDict,
                   token |-> NoneDict, user_data |-> Return(NoneDict)]
        ELSE IF NoToken(token)
        THEN [next |-> FALSE, state |-> request.state,
              response |-> GateReject("No authentication token provided"),
              token |-> token, user_data |-> Return(NoneDict)]
        ELSE IF user_data.raised
        THEN [next |-> FALSE, state |-> request.state,
              response |-> HandleException(user_data),
              token |-> token, user_data |-> user_data]
        ELSE IF ~TruthyDict(user_data.value)
        THEN [next |-> FALSE, state |-> request.state,
              response |-> GateReject("Invalid or expired token"),
              token |-> token, user_data |-> user_data]
        ELSE [next |-> TRUE,
              state |-> Update(request.state, [current_user |-> user_data.value]),
              response |-> NoneDict,
              token |-> token, user_data |-> user_data]

\* AuthMiddleware.dispatch up to the point where it either answers itself,
\* lets an exception escape, or calls call_next.  The result tells which
\* (next), the request state it leaves, and the values of its locals token
\* and user_data (Return(NoneDict) while not assigned).
dispatch(request, t, cfg, salt1, salt2) ==
    LET token == _extract_token(request.headers)
        user_data == _verify_token(token, t, cfg, salt1, salt2)
    IN  IF IsPublic(request.path)
        THEN [next |-> TRUE, state |-> request.state, response |-> NoneDict,
              token |-> NoneDict, user_data |-> Return(NoneDict)]
        ELSE IF NoToken(token)
        THEN [next |-> FALSE, state |-> request.state,
              response |-> GateReject("No authentication token provided"),
              token |-> token, user_data |-> Return(NoneDict)]
        ELSE IF user_data.raised
        THEN [next |-> FALSE, state |-> request.state,
              response |-> HandleException(user_data),
              token |-> token, user_data |-> user_data]
        ELSE IF ~TruthyDict(user_data.value)
        THEN [next |-> FALSE, state |-> request.state,
              response |-> GateReject("Invalid or expired token"),
              token |-> token, user_data |-> user_data]
        ELSE [next |-> TRUE,
              state |-> Update(request.state, [current_user |-> user_data.value]),
              response |-> NoneDict,
              token |-> token, user_data |-> user_data]

\* middleware.auth.get_current_user
get_current_user(request) ==
    IF "current_user" \notin DOMAIN request.state
    THEN AuthenticationError("No authenticated user found")
    ELSE Return(request.state.current_user)

\* what the operation wrapped by require_role returns when it runs
Executed == Return("executed")

\* wrapper that tests the role before it asks for the identity, an absent
\* identity counting as a user without role
require_role_role_first(required_role, request) ==
    LET user == IF "current_user" \in DOMAIN request.state
                THEN request.state.current_user ELSE <<>>
    IN  IF Get(user, "role") # required_role
        THEN AuthorizationError("Role '" \o required_role \o "' required")
        ELSE Executed

\* middleware.auth.require_role(required_role) applied to an operation and
\* called with the request
require_role(required_role, request) ==
    LET user == get_current_user(request)
    IN  IF user.raised THEN user
        ELSE IF Get(user.value, "role") # required_role
        THEN AuthorizationError("Role '" \o required_role \o "' required")
        ELSE Executed

----------------------------------------------------------------------------
(* Login and refresh: AuthenticationService.authenticate_user, routes/auth.py *)

\* AuthenticationService._authenticate_local_user
_authenticate_local_user(email, password) ==
    IF AsyncWith(get_db_session).raised THEN AsyncWith(get_db_session)
    ELSE LET rows == {u \in users : u.email = email /\ u.is_active}
         IN  IF rows # {} /\ verify_password(password, (CHOOSE u \in rows : TRUE).password_hash)
             THEN LET user_data == CHOOSE u \in rows : TRUE
                  IN  Return([user_id |-> user_data.id, email |-> user_data.email,
                              first_name |-> user_data.first_name,
                              last_name |-> user_data.last_name,
                              role |-> user_data.role,
                              organization |-> user_data.organization])
             ELSE Return(NoneDict)

\* the ID token the provider returns from initiate_auth for a pool user
CognitoIdToken(u, t) ==
    jose_encode([sub |-> u.id, email |-> u.email, given_name |-> u.first_name,
                 family_name |-> u.last_name, exp |-> t + 60, type |-> "id"],
                "cognito-pool-key", "RS256")

\* AuthenticationService._authenticate_cognito_user.  provider_up = FALSE is
\* a failing initiate_auth call; a wrong password makes the call raise too.
\* Every exception is caught and becomes None.
_authenticate_cognito_user(email, password, t, cfg, provider_up) ==
    LET rows == {u \in users : /\ u.email = email /\ u.is_active
                               /\ verify_password(password, u.password_hash)}
    IN  IF ~cfg.enable_aws_auth THEN Return(NoneDict)
        ELSE IF ~provider_up \/ rows = {} THEN Return(NoneDict)
        ELSE LET id_token == CognitoIdToken(CHOOSE u \in rows : TRUE, t)
                 user_info == verify_cognito_token(id_token, cfg)
             IN  IF TruthyDict(user_info)
                 THEN Return([user_id |-> Get(user_info, "sub"),
                              email |-> Get(user_info, "email"),
                              first_name |-> Get(user_info, "given_name"),
                              last_name |-> Get(user_info, "family_name"),
                              role |-> IF "custom:role" \in DOMAIN user_info
                                       THEN user_info["custom:role"] ELSE "user",
                              organization |-> Get(user_info, "custom:organization")])
                 ELSE Return(NoneDict)

\* authenticate_user that goes on to the provider when the local backend
\* did not produce a user
authenticate_user_falls_back(email, password, t, cfg, provider_up) ==
    LET local == _authenticate_local_user(email, password)
        cognito == _authenticate_cognito_user(email, password, t, cfg, provider_up)
    IN  IF cfg.enable_local_auth
        THEN IF cfg.enable_aws_auth /\ (local.raised \/ ~TruthyDict(local.value))
             THEN Attempted(cognito, <<"_authenticate_local_user",
                                       "_authenticate_cognito_user">>)
             ELSE Attempted(local, <<"_authenticate_local_user">>)
        ELSE IF cfg.enable_aws_auth
        THEN Attempted(cognito, <<"_authenticate_cognito_user">>)
        ELSE Attempted(AuthenticationError("No authentication method enabled"), <<>>)

\* AuthenticationService.authenticate_user; steps lists the backend methods
\* it called
authenticate_user(email, password, t, cfg, provider_up) ==
    IF cfg.enable_local_auth
    THEN Attempted(_authenticate_local_user(email, password),
                   <<"_authenticate_local_user">>)
    ELSE IF cfg.enable_aws_auth
    THEN Attempted(_authenticate_cognito_user(email, password, t, cfg, provider_up),
                   <<"_authenticate_cognito_user">>)
    ELSE Attempted(AuthenticationError("No authentication method enabled"), <<>>)

\* TokenResponse
TokenResponse(access_token, refresh_token) ==
    [access_token |-> access_token, refresh_token |-> refresh_token,
     token_type |-> "bearer", expires_in |-> 60 * 30]

\* routes/auth.py login_user
login_user(login_data, t, cfg, provider_up) ==
    LET user_data == authenticate_user(login_data.email, login_data.password,
                                       t, cfg, provider_up)
    IN  IF user_data.raised THEN user_data
        ELSE IF ~TruthyDict(user_data.value)
        THEN Attempted(AuthenticationError("Invalid email or password"),
                       user_data.steps)
        ELSE LET token_data == [sub |-> user_data.value.user_id,
                                email |-> user_data.value.email,
                                role |-> user_data.value.role]
                 access_token == create_access_token(token_data, t).token
                 refresh == create_refresh_token([sub |-> user_data.value.user_id], t).token
             IN  Attempted(Return(TokenResponse(access_token, refresh)),
                           user_data.steps)

\* refresh_token without the test of the type claim
refresh_token_any_type(refresh_request, t) ==
    LET payload == verify_token(refresh_request.refresh_token, t)
    IN  IF ~TruthyDict(payload)
        THEN AuthenticationError("Invalid or expired refresh token")
        ELSE IF ~TruthyStr(Get(payload, "sub"))
        THEN AuthenticationError("Invalid refresh token payload")
        ELSE LET token_data == [sub |-> Get(payload, "sub"),
                                email |-> Get(payload, "email"),
                                role |-> Get(payload, "role")]
                 access_token == create_access_token(token_data, t).token
             IN  Return(TokenResponse(access_token, NoneDict))

\* refresh_token without the test of user_id
refresh_token_any_subject(refresh_request, t) ==
    LET payload == verify_token(refresh_request.refresh_token, t)
    IN  IF ~TruthyDict(payload) \/ Get(payload, "type") # "refresh"
        THEN AuthenticationError("Invalid or expired refresh token")
        ELSE LET token_data == [sub |-> Get(payload, "sub"),
                                email |-> Get(payload, "email"),
                                role |-> Get(payload, "role")]
                 access_token == create_access_token(token_data, t).token
             IN  Return(TokenResponse(access_token, NoneDict))

\* routes/auth.py refresh_token
refresh_token(refresh_request, t) ==
    LET payload == verify_token(refresh_request.refresh_token, t)
    IN  IF ~TruthyDict(payload) \/ Get(payload, "type") # "refresh"
        THEN AuthenticationError("Invalid or expired refresh token")
        ELSE IF ~TruthyStr(Get(payload, "sub"))
        THEN AuthenticationError("Invalid refresh token payload")
        ELSE LET token_data == [sub |-> Get(payload, "sub"),
                                email |-> Get(payload, "email"),
                                role |-> Get(payload, "role")]
                 access_token == create_access_token(token_data, t).token
             IN  Return(TokenResponse(access_token, NoneDict))

----------------------------------------------------------------------------
(* Protected routes *)

\* fields UserProfile requires besides id (schemas/auth.py)
UserProfileRequired ==
    {"email", "first_name", "last_name", "role", "created_at", "updated_at"}

\* routes/users.py get_current_user_profile:
\* UserProfile(**current_user, id=current_user["user_id"])
get_current_user_profile(request) ==
    LET current_user == get_current_user(request)
    IN  IF current_user.raised THEN current_user
        ELSE IF "user_id" \notin DOMAIN current_user.value THEN Raise("KeyError")
        ELSE IF "id" \in DOMAIN current_user.value THEN Raise("TypeError")
        ELSE IF ~(UserProfileRequired \subseteq DOMAIN current_user.value)
        THEN Raise("ValidationError")
        ELSE Return(Update(current_user.value, [id |-> current_user.value.user_id]))

\* routes/drugs.py list_drugs with the default query parameters
list_drugs(request) ==
    LET current_user == get_current_user(request)
    IN  IF current_user.raised THEN current_user
        ELSE Return([data |-> <<>>, meta |-> [page |-> 1, limit |-> 20, total |-> 0, pages |-> 0]])

\* a query parameter declared with Query(default, ...)
Query(query, name, default) ==
    IF name \in DOMAIN query THEN query[name] ELSE default

\* routes/drugs.py get_drug_details; drug_id is the path piece that matched
\* the parameter
get_drug_details(request, drug_id) ==
    LET current_user == get_current_user(request)
    IN  IF current_user.raised THEN current_user
        ELSE Return([id |-> drug_id, name |-> "Example Drug"])

\* routes/drugs.py get_new_drugs: page ge=1, limit ge=1 le=100,
\* days_back ge=1 le=365
get_new_drugs(request) ==
    LET current_user == get_current_user(request)
        page == Query(request.query, "page", 1)
        limit == Query(request.query, "limit", 20)
        days_back == Query(request.query, "days_back", 30)
    IN  IF current_user.raised THEN current_user
        ELSE IF \/ page < 1
                \/ limit < 1 \/ limit > 100
                \/ days_back < 1 \/ days_back > 365
        THEN RequestValidationError
        ELSE Return([data |-> <<>>,
                     meta |-> [page |-> page, limit |-> limit,
                               total |-> 0, pages |-> 0]])

\* database.check_database_health: False without an engine and when the
\* probe raises.  env.engine is "none" (never connected), "up" or "down".
check_database_health(env) == env.engine = "up"

\* database.check_redis_health, the same for database.redis_client
check_redis_health(env) == env.redis_client = "up"

\* get_health_status that reports one failing dependency as "unhealthy"
get_health_status_no_degraded(env) ==
    LET db_healthy == check_database_health(env)
        redis_healthy == check_redis_health(env)
        status == IF db_healthy /\ redis_healthy THEN "healthy" ELSE "unhealthy"
    IN  Return([status |-> status, version |-> "0.1.0",
                dependencies |->
                    [database |-> IF db_healthy THEN "healthy" ELSE "unhealthy",
                     redis |-> IF redis_healthy THEN "healthy" ELSE "unhealthy",
                     external_apis |-> "unknown"]])

\* routes/health.py get_health_status (timestamp and uptime left out)
get_health_status(env) ==
    LET db_healthy == check_database_health(env)
        redis_healthy == check_redis_health(env)
        status == IF db_healthy /\ redis_healthy THEN "healthy"
                  ELSE IF db_healthy \/ redis_healthy THEN "degraded"
                  ELSE "unhealthy"
    IN  Return([status |-> status, version |-> "0.1.0",
                dependencies |->
                    [database |-> IF db_healthy THEN "healthy" ELSE "unhealthy",
                     redis |-> IF redis_healthy THEN "healthy" ELSE "unhealthy",
                     external_apis |-> "unknown"]])

\* routes/health.py get_metrics behind Depends(get_redis_client):
\* DatabaseManager.get_redis raises without a client; a failing client gives
\* the default values, as does an empty one
get_metrics(env) ==
    IF env.redis_client = "none" THEN Raise("RuntimeError")
    ELSE Return([requests_total |-> 0, requests_per_minute |-> 0,
                 average_response_time |-> 0, error_rate |-> 0])

LoginPath == <<"/auth", "/login">>
RefreshPath == <<"/auth", "/refresh">>
ProfilePath == <<"/users", "/profile">>
DrugsPath == <<"/drugs", "/">>
NewDrugsPath == <<"/drugs", "/new">>
HealthPath == <<"/health">>
MetricsPath == <<"/metrics">>

\* a path piece that is a path parameter such as /{drug_id}: it matches any
\* piece that has a non-empty segment after its slash
PathParam == "/{param}"

\* the routes of the application in the order they are registered: the
\* documentation routes by FastAPI(...), then the routers in the order of
\* main.py's include_router calls, each with its routes in the order of
\* their decorators
routes ==
    << [path |-> <<"/openapi.json">>, endpoint |-> "openapi"],
       [path |-> <<"/docs">>, endpoint |-> "swagger_ui_html"],
       [path |-> <<"/redoc">>, endpoint |-> "redoc_html"],
       [path |-> HealthPath, endpoint |-> "get_health_status"],
       [path |-> MetricsPath, endpoint |-> "get_metrics"],
       [path |-> LoginPath, endpoint |-> "login_user"],
       [path |-> RefreshPath, endpoint |-> "refresh_token"],
       [path |-> ProfilePath, endpoint |-> "get_current_user_profile"],
       [path |-> DrugsPath, endpoint |-> "list_drugs"],
       [path |-> <<"/drugs", PathParam>>, endpoint |-> "get_drug_details"],
       [path |-> <<"/drugs", PathParam, "/analytics">>,
        endpoint |-> "get_drug_analytics"],
       [path |-> <<"/drugs", PathParam, "/adverse-events">>,
        endpoint |-> "get_drug_adverse_events"],
       [path |-> NewDrugsPath, endpoint |-> "get_new_drugs"] >>

\* starlette Route.matches for a path
Matches(pattern, path) ==
    /\ Len(pattern) = Len(path)
    /\ \A i \in 1..Len(path) :
          IF pattern[i] = PathParam THEN path[i] # "/" ELSE pattern[i] = path[i]

NotFound == [path |-> <<>>, endpoint |-> "not_found"]

\* starlette Router: the first route that matches, in registration order
Route(path) ==
    LET hits == {i \in 1..Len(routes) : Matches(routes[i].path, path)}
    IN  IF hits = {} THEN NotFound
        ELSE routes[CHOOSE i \in hits : \A j \in hits : i <= j]

\* the page one of the documentation routes serves
DocsPage(endpoint) == Return([page |-> endpoint])

\* the route handler the router runs for a request that reached it
RouteHandler(request, t, cfg) ==
    LET endpoint == Route(request.path).endpoint
    IN  IF endpoint = "login_user"
        THEN login_user(request.body, t, cfg, request.provider_up)
        ELSE IF endpoint = "refresh_token" THEN refresh_token(request.body, t)
        ELSE IF endpoint = "get_current_user_profile"
        THEN get_current_user_profile(request)
        ELSE IF endpoint = "list_drugs" THEN list_drugs(request)
        ELSE IF endpoint = "get_drug_details"
        THEN get_drug_details(request, request.path[2])
        ELSE IF endpoint = "get_new_drugs" THEN get_new_drugs(request)
        ELSE IF endpoint = "get_health_status" THEN get_health_status(request.env)
        ELSE IF endpoint = "get_metrics" THEN get_metrics(request.env)
        ELSE IF endpoint \in {"openapi", "swagger_ui_html", "redoc_html"}
        THEN DocsPage(endpoint)
        ELSE [raised |-> TRUE, exc |-> "HTTPException", status_code |-> 404,
              error_code |-> "HTTP_ERROR", message |-> "Not Found"]

----------------------------------------------------------------------------
(* Inputs: the credentials and requests a client can send *)

\* request slots; the sequential specification uses the first one
ReqIds == {"r1", "r2"}
SeqReqIds == {"r1"}

ActiveUsers == {u \in users : u.is_active}

TokenData(u) == [sub |-> u.id, email |-> u.email, role |-> u.role]

\* tokens handed out by login_user at the times in ts
LoginAccessTokens(ts) ==
    {create_access_token(TokenData(u), t0).token : u \in ActiveUsers, t0 \in ts}

LoginRefreshTokens(ts) ==
    {create_refresh_token([sub |-> u.id], t0).token : u \in ActiveUsers, t0 \in ts}

\* a token whose claims were edited after signing
Tamper(token) ==
    [token EXCEPT !.claims = [@ EXCEPT !.exp = @ + refresh_token_expire_days * MinutesPerDay,
                                       !.sub = "u2"]]

\* a token signed with a key that is not the server's
AttackerSigned(t) ==
    jose_encode([sub |-> "u2", email |-> "u2@example.com", role |-> "admin",
                 exp |-> t + access_token_expire_minutes, type |-> "access"],
                "attacker-key", algorithm)

RawStrings == {Opaque("garbage"), Opaque("key-u1"), Opaque("key-u2-expiring"),
               Opaque("key-u1-revoked"), Opaque("unknown-key")}

BearerCredentials(ts, t) ==
    LoginAccessTokens(ts) \cup LoginRefreshTokens(ts)
    \cup {Tamper(tok) : tok \in LoginAccessTokens(ts)}
    \cup {AttackerSigned(t)} \cup RawStrings

Bearer(c) == [x \in {"Authorization"} |-> <<Opaque("Bearer"), c>>]
ApiKeyHeader(c) == [x \in {"X-API-Key"} |-> c]
NoHeaders == <<>>

HeaderSets(ts, t) ==
    {NoHeaders}
    \cup {Bearer(c) : c \in BearerCredentials(ts, t)}
    \cup {ApiKeyHeader(c) : c \in RawStrings}

\* a request with both headers; authorization is the header value cut at
\* its spaces
BothHeaders(authorization, api_key) ==
    [x \in {"Authorization", "X-API-Key"} |->
        IF x = "Authorization" THEN authorization ELSE api_key]

\* Authorization header values with and without the "Bearer " prefix
AuthorizationValues(ts) ==
    {<<Opaque("Bearer"), c>> : c \in LoginAccessTokens(ts) \cup {Opaque("")}}
    \cup {<<Opaque("bearer"), c>> : c \in LoginAccessTokens(ts)}
    \cup {<<Opaque("Basic"), Opaque("dTE6cGFzc3dvcmQ=")>>, <<Opaque("Bearer")>>,
           <<Opaque("Bearer"), Opaque("key-u1"), Opaque("trailing")>>}

\* header sets that exercise the order of extraction
ExtractionHeaders(ts) ==
    {BothHeaders(a, k) : a \in AuthorizationValues(ts),
                         k \in {Opaque("key-u1"), Opaque("")}}
    \cup {[x \in {"Authorization"} |-> a] : a \in AuthorizationValues(ts)}
    \cup {ApiKeyHeader(Opaque(""))}

NoBody == <<>>

LoginBodies ==
    {[email |-> e, password |-> pw] :
        e \in {u.email : u \in users} \cup {"nobody@example.com"},
        pw \in {Opaque("password-u1"), Opaque("wrong-password")}}

\* a refresh token made from a dict without sub
RefreshTokenWithoutSub(t) == create_refresh_token([email |-> "u1@example.com"], t).token

RefreshBodies(ts, t) ==
    {[refresh_token |-> c] :
        c \in LoginRefreshTokens(ts) \cup LoginAccessTokens(ts)
              \cup {Opaque("garbage"), AttackerSigned(t)}
              \cup {RefreshTokenWithoutSub(t0) : t0 \in ts}}

NoQuery == <<>>

\* query strings of GET /drugs/new
NewDrugsQueries ==
    {NoQuery, [page |-> 2, limit |-> 100], [days_back |-> 7, limit |-> 10],
     [days_back |-> 0], [days_back |-> 366], [limit |-> 101], [page |-> 0],
     [days_back |-> 1], [days_back |-> 365]}

\* what the health probes find: the engine and the Redis client are absent
\* ("none"), answer ("up") or fail ("down")
Connected == [engine |-> "up", redis_client |-> "up"]
Environments ==
    {[engine |-> e, redis_client |-> c] :
        e \in {"none", "up", "down"}, c \in {"none", "up", "down"}}

\* paths that start with an entry of public_routes
PublicPaths ==
    {HealthPath, MetricsPath, <<"/docs">>, <<"/redoc">>, <<"/openapi.json">>,
     <<"/health", "z">>, <<"/docs", "/oauth2-redirect">>}

\* credentials issued to active users
ValidHeaders(ts) ==
    {Bearer(c) : c \in LoginAccessTokens(ts)} \cup {ApiKeyHeader(Opaque("key-u1"))}

NewRequest(path, headers, body, provider_up) ==
    [pc |-> "received", path |-> path, headers |-> headers, body |-> body,
     query |-> NoQuery, env |-> Connected,
     provider_up |-> provider_up, state |-> <<>>, called_next |-> FALSE,
     response |-> NoneDict, at |-> 0, token |-> NoneDict,
     user_data |-> Return(NoneDict), endpoint |-> None, handled_at |-> 0,
     backends |-> <<>>, sessions |-> {}]

\* requests to the public routes, with and without a credential
PublicRequests(ts, t) ==
    {NewRequest(path, h, NoBody, TRUE) :
        path \in PublicPaths, h \in {NoHeaders} \cup ValidHeaders(ts)}
    \cup {[NewRequest(path, NoHeaders, NoBody, TRUE) EXCEPT !.env = env] :
            path \in {HealthPath, MetricsPath}, env \in Environments}
    \cup {NewRequest(LoginPath, h, [email |-> "u1@example.com",
                                     password |-> Opaque("password-u1")], TRUE) :
            h \in ValidHeaders(ts)}
    \cup {NewRequest(RefreshPath, h, [refresh_token |-> c], TRUE) :
            h \in ValidHeaders(ts), c \in LoginRefreshTokens({t})}

\* requests to the drug routes that take parameters
DrugRequests(ts, t) ==
    {[NewRequest(NewDrugsPath, h, NoBody, TRUE) EXCEPT !.query = q] :
        h \in {NoHeaders} \cup {Bearer(c) : c \in LoginAccessTokens(ts)},
        q \in NewDrugsQueries}
    \cup {NewRequest(<<"/drugs", "/d1">>, h, NoBody, TRUE) :
            h \in {NoHeaders} \cup {Bearer(c) : c \in LoginAccessTokens(ts)}}

RequestInputs(ts, t) ==
    {NewRequest(path, h, NoBody, TRUE) :
        path \in {ProfilePath, DrugsPath}, h \in HeaderSets(ts, t)}
    \cup {NewRequest(LoginPath, NoHeaders, b, up) : b \in LoginBodies, up \in BOOLEAN}
    \cup {NewRequest(RefreshPath, NoHeaders, b, TRUE) : b \in RefreshBodies(ts, t)}
    \cup PublicRequests(ts, t)
    \cup DrugRequests(ts, t)
    \cup {NewRequest(DrugsPath, h, NoBody, TRUE) : h \in ExtractionHeaders(ts)}

Idle == [pc |-> "idle"]

\* caller-supplied dicts for direct calls of the codec, with and without
\* entries named type and exp
CodecData ==
    {TokenData(u) : u \in ActiveUsers}
    \cup {[sub |-> u.id] : u \in ActiveUsers}
    \cup {[sub |-> "u1", type |-> "refresh", exp |-> 0],
          [sub |-> "u1", type |-> "access", exp |-> 0],
          [sub |-> "u2", role |-> "admin", type |-> "admin"]}

----------------------------------------------------------------------------
(* State machine *)

Init ==
    /\ now = 0
    /\ times = {0}
    /\ settings \in SettingsSpace
    /\ req = [r \in ReqIds |-> Idle]
    /\ codec = [fn |-> "none"]
    /\ call = [fn |-> "none"]
    /\ store = InitialStore
    /\ database = DatabaseManager

\* the wall clock advances
Tick(d) ==
    /\ Cardinality(times) <= MaxTicks
    /\ now' = now + d
    /\ times' = times \cup {now + d}
    /\ UNCHANGED <<settings, req, codec, call, store, database>>

\* a dispatch that stamps every API-key record with the time of the
\* resolution
Dispatch_stamps_last_used(r) ==
    /\ req[r].pc = "idle"
    /\ \E request \in RequestInputs(times, now), salt1 \in Salts, salt2 \in Salts :
          LET d == dispatch(request, now, settings, salt1, salt2)
          IN  req' = [req EXCEPT ![r] =
                        [request EXCEPT !.pc = IF d.next THEN "downstream" ELSE "done",
                                        !.state = d.state,
                                        !.called_next = d.next,
                                        !.response = d.response,
                                        !.at = now,
                                        !.token = d.token,
                                        !.user_data = d.user_data]]
    /\ store' = [store EXCEPT !.api_keys =
                     {Update(row, [last_used |-> now]) : row \in @}]
    /\ UNCHANGED <<now, times, settings, codec, call, database>>

\* a request arrives and AuthMiddleware.dispatch runs up to its answer, its
\* escaping exception or its call of call_next
Dispatch(r) ==
    /\ req[r].pc = "idle"
    /\ \E request \in RequestInputs(times, now), salt1 \in Salts, salt2 \in Salts :
          LET d == dispatch(request, now, settings, salt1, salt2)
          IN  req' = [req EXCEPT ![r] =
                        [request EXCEPT !.pc = IF d.next THEN "downstream" ELSE "done",
                                        !.state = d.state,
                                        !.called_next = d.next,
                                        !.response = d.response,
                                        !.at = now,
                                        !.token = d.token,
                                        !.user_data = d.user_data]]
    /\ UNCHANGED <<now, times, settings, codec, call, store, database>>

\* requests two clients send at the same time
ConcurrentInputs(t) ==
    {NewRequest(DrugsPath, h, NoBody, TRUE) :
        h \in {NoHeaders, Bearer(Opaque("garbage"))}
               \cup {Bearer(c) : c \in LoginAccessTokens({t})}}

\* Receive that puts the unverified credential on request.state before the
\* resolution is awaited
Receive_attaches_unverified(r) ==
    /\ req[r].pc = "idle"
    /\ \E request \in ConcurrentInputs(now) :
          req' = [req EXCEPT ![r] =
                    [request EXCEPT !.pc = "resolving",
                                    !.state = [current_user |->
                                                 [token |-> _extract_token(request.headers)]]]]
    /\ UNCHANGED <<now, times, settings, codec, call, store, database>>

\* a request arrives and AuthMiddleware.dispatch runs up to its first await
Receive(r) ==
    /\ req[r].pc = "idle"
    /\ \E request \in ConcurrentInputs(now) :
          req' = [req EXCEPT ![r] = [request EXCEPT !.pc = "resolving"]]
    /\ UNCHANGED <<now, times, settings, codec, call, store, database>>

\* the rest of dispatch, with the resolved identity kept in an attribute of
\* the one AuthMiddleware object: every request that has not been answered
\* sees the identity resolved last
Resolve_shared_identity(r) ==
    /\ req[r].pc = "resolving"
    /\ \E salt1 \in Salts, salt2 \in Salts :
          LET d == dispatch(req[r], now, settings, salt1, salt2)
              mine == [req[r] EXCEPT !.pc = IF d.next THEN "downstream" ELSE "done",
                                     !.state = d.state,
                                     !.called_next = d.next,
                                     !.response = d.response,
                                     !.at = now,
                                     !.token = d.token,
                                     !.user_data = d.user_data]
          IN  req' = [q \in ReqIds |->
                        IF q = r THEN mine
                        ELSE IF req[q].pc \in {"resolving", "downstream"}
                                /\ "current_user" \in DOMAIN d.state
                        THEN [req[q] EXCEPT !.state = d.state]
                        ELSE req[q]]
    /\ UNCHANGED <<now, times, settings, codec, call, store, database>>

\* the rest of AuthMiddleware.dispatch for a received request, after other
\* requests may have been received or resolved: it works on its own
\* request object and its own locals
Resolve(r) ==
    /\ req[r].pc = "resolving"
    /\ \E salt1 \in Salts, salt2 \in Salts :
          LET d == dispatch(req[r], now, settings, salt1, salt2)
          IN  req' = [req EXCEPT ![r] =
                        [req[r] EXCEPT !.pc = IF d.next THEN "downstream" ELSE "done",
                                       !.state = d.state,
                                       !.called_next = d.next,
                                       !.response = d.response,
                                       !.at = now,
                                       !.token = d.token,
                                       !.user_data = d.user_data]]
    /\ UNCHANGED <<now, times, settings, codec, call, store, database>>

\* call_next: the route handler runs and its result or exception becomes
\* the response
Handler(r) ==
    /\ req[r].pc = "downstream"
    /\ LET result == RouteHandler(req[r], now, settings)
       IN  req' = [req EXCEPT ![r].pc = "done",
                              ![r].endpoint = Route(req[r].path).endpoint,
                              ![r].handled_at = now,
                              ![r].backends = IF "steps" \in DOMAIN result
                                              THEN result.steps ELSE <<>>,
                              ![r].response = IF result.raised
                                              THEN HandleException(result)
                                              ELSE Ok(result.value)]
    /\ UNCHANGED <<now, times, settings, codec, call, store, database>>

\* the session FastAPI injects into login_user as `db`: opened by the
\* get_db_session dependency and used by no statement of the handler
InjectedSession == [opened_by |-> "get_db_session", lookup |-> None]

\* call_next reaches login_user: FastAPI resolves Depends(get_db_session),
\* which enters database.get_session() (RuntimeError without a session
\* factory) and keeps the session open while the handler runs; the handler
\* then suspends in `await auth.authenticate_user(...)`
LoginEnter(r) ==
    /\ req[r].pc = "downstream"
    /\ Route(req[r].path).endpoint = "login_user"
    /\ LET entered == get_session(database, "returns", TRUE)
       IN  IF entered.session = NoneDict
           THEN req' = [req EXCEPT ![r].pc = "done",
                                   ![r].endpoint = "login_user",
                                   ![r].handled_at = now,
                                   ![r].response =
                                       HandleException(Raise(entered.exc))]
           ELSE req' = [req EXCEPT ![r].pc = "in_login_user",
                                   ![r].endpoint = "login_user",
                                   ![r].handled_at = now,
                                   ![r].sessions = @ \cup {InjectedSession}]
    /\ UNCHANGED <<now, times, settings, codec, call, store, database>>

\* authenticate_user comes back (it opened no session of its own: its
\* `async with get_db_session()` raises before a session exists), the rest
\* of login_user runs, and the dependency is left: commit or rollback, then
\* close
LoginReturn(r) ==
    /\ req[r].pc = "in_login_user"
    /\ LET result == RouteHandler(req[r], req[r].handled_at, settings)
           left == get_session(database, IF result.raised THEN "raises"
                                         ELSE "returns", TRUE)
       IN  req' = [req EXCEPT ![r].pc = "done",
                              ![r].backends = result.steps,
                              ![r].sessions = IF left.session.closed
                                              THEN @ \ {InjectedSession} ELSE @,
                              ![r].response = IF result.raised
                                              THEN HandleException(result)
                                              ELSE Ok(result.value)]
    /\ UNCHANGED <<now, times, settings, codec, call, store, database>>

\* call_next reaches a handler that declares no store session
HandlerWithoutSession(r) ==
    /\ req[r].pc = "downstream"
    /\ Route(req[r].path).endpoint # "login_user"
    /\ Handler(r)

\* the client disconnects while dispatch awaits _verify_token:
\* CancelledError is raised at the await and dispatch is unwound
Cancel(r) ==
    /\ req[r].pc = "resolving"
    /\ req' = [req EXCEPT ![r].pc = "cancelled"]
    /\ UNCHANGED <<now, times, settings, codec, call, store, database>>

\* the response has been sent, or the cancelled request is dropped
Complete(r) ==
    /\ req[r].pc \in {"done", "cancelled"}
    /\ req' = [req EXCEPT ![r] = Idle]
    /\ UNCHANGED <<now, times, settings, codec, call, store, database>>

\* database.connect() is called (main.lifespan at startup, or directly)
Connect ==
    /\ \E outcome \in ConnectOutcomes :
          database' = connect(database, outcome).self
    /\ UNCHANGED <<now, times, settings, req, codec, call, store>>

\* database.disconnect() is called (main.lifespan at shutdown, or directly)
Disconnect ==
    /\ database' = disconnect(database).self
    /\ UNCHANGED <<now, times, settings, req, codec, call, store>>

\* `async with database.get_session() as session:` around a body
GetSessionCall ==
    /\ \E body \in Bodies, commit_ok \in BOOLEAN :
          call' = [fn |-> "get_session", after |-> database.last_call,
                   body |-> body, commit_ok |-> commit_ok,
                   result |-> get_session(database, body, commit_ok)]
    /\ UNCHANGED <<now, times, settings, req, codec, store, database>>

\* a call of database.get_redis()
GetRedisCall ==
    /\ call' = [fn |-> "get_redis", after |-> database.last_call,
                result |-> get_redis(database)]
    /\ UNCHANGED <<now, times, settings, req, codec, store, database>>

\* a direct call of create_access_token or create_refresh_token
CodecCall ==
    /\ \E data \in CodecData, fn \in {"access", "refresh"} :
          codec' = [fn |-> fn, data |-> data, at |-> now,
                    result |-> IF fn = "access" THEN create_access_token(data, now)
                               ELSE create_refresh_token(data, now),
                    checked |-> FALSE, token |-> NoneDict, checked_at |-> 0,
                    payload |-> NoneDict]
    /\ UNCHANGED <<now, times, settings, req, call, store, database>>

\* a direct call of verify_token on the token created last, on an edited
\* copy of it, or on any other string
VerifyCall ==
    /\ codec.fn # "none"
    /\ \E token \in {codec.result.token, Tamper(codec.result.token),
                     Opaque("garbage")} \cup {AttackerSigned(t0) : t0 \in times} :
          codec' = [codec EXCEPT !.checked = TRUE, !.token = token,
                                 !.checked_at = now,
                                 !.payload = verify_token(token, now)]
    /\ UNCHANGED <<now, times, settings, req, call, store, database>>

\* passlib CryptContext.verify as called by verify_password: a hash of None
\* is answered False, a string that no configured scheme recognises raises
\* UnknownHashError, a bcrypt digest is compared
pwd_context_verify(plain, hashed) ==
    IF hashed = NoneDict THEN Return(FALSE)
    ELSE IF "scheme" \notin DOMAIN hashed THEN Raise("UnknownHashError")
    ELSE Return(verify_password(plain, hashed))

\* what a password_hash column can hold: NULL, a string that is not a
\* digest, and digests
StoredHashes ==
    {NoneDict, Opaque("not-a-hash"), Opaque("")}
    \cup {bcrypt(Opaque("password-u1"), salt) : salt \in Salts}

\* passwords a caller can present: short ones, one of exactly 72 bytes and
\* two longer ones that start with it
Passwords ==
    {Opaque(""), Opaque("password-u1"), Opaque("password-u2"),
     Opaque("seventy-two-bytes"), Long("seventy-two-bytes", "a"),
     Long("seventy-two-bytes", "b")}

\* a direct call of get_password_hash
HashCall ==
    /\ \E plain \in Passwords, salt \in Salts :
          call' = [fn |-> "get_password_hash", plain |-> plain,
                   hashed |-> get_password_hash(plain, salt),
                   candidate |-> Opaque(""), result |-> FALSE]
    /\ UNCHANGED <<now, times, settings, req, codec, store, database>>

\* a direct call of verify_password against the digest made last
VerifyPasswordCall ==
    /\ call.fn = "get_password_hash"
    /\ \E candidate \in Passwords :
          call' = [call EXCEPT !.fn = "verify_password",
                               !.candidate = candidate,
                               !.result = verify_password(candidate, call.hashed)]
    /\ UNCHANGED <<now, times, settings, req, codec, store, database>>

\* verify_password called with the password_hash of a row as it was read
\* from the users table; it returns what pwd_context.verify returns and
\* catches nothing
VerifyStoredCall ==
    /\ \E plain \in Passwords, hashed \in StoredHashes :
          call' = [fn |-> "verify_stored", plain |-> plain, hashed |-> hashed,
                   result |-> pwd_context_verify(plain, hashed)]
    /\ UNCHANGED <<now, times, settings, req, codec, store, database>>

\* roles an operation can require
Roles == {u.role : u \in users}

\* an operation guarded by require_role is called with a request that went
\* through the gate
RequireRoleCall(r) ==
    /\ req[r].pc = "downstream"
    /\ \E required_role \in Roles :
          call' = [fn |-> "require_role", required_role |-> required_role,
                   state |-> req[r].state,
                   result |-> require_role(required_role, req[r])]
    /\ UNCHANGED <<now, times, settings, req, codec, store, database>>

TickSteps == {1, access_token_expire_minutes, refresh_token_expire_days * MinutesPerDay}

\* one client sending one request after the other
Next ==
    \/ \E d \in TickSteps : Tick(d)
    \/ \E r \in SeqReqIds : Dispatch(r)
    \/ \E r \in SeqReqIds : Handler(r)
    \/ \E r \in SeqReqIds : Complete(r)

Spec == Init /\ [][Next]_vars

\* the token codec called directly, while the clock advances
NextCodec ==
    \/ \E d \in TickSteps : Tick(d)
    \/ CodecCall
    \/ VerifyCall

SpecCodec == Init /\ [][NextCodec]_vars

\* operations guarded by require_role, called with the requests that passed
\* the gate
NextGuard ==
    \/ \E d \in TickSteps : Tick(d)
    \/ \E r \in SeqReqIds : Dispatch(r)
    \/ \E r \in SeqReqIds : RequireRoleCall(r)
    \/ \E r \in SeqReqIds : Complete(r)

SpecGuard == Init /\ [][NextGuard]_vars

\* two clients whose requests interleave at the awaits of dispatch and at
\* call_next
NextConcurrent ==
    \/ \E d \in TickSteps : Tick(d)
    \/ \E r \in ReqIds : Receive(r)
    \/ \E r \in ReqIds : Resolve(r)
    \/ \E r \in ReqIds : Handler(r)
    \/ \E r \in ReqIds : Complete(r)

SpecConcurrent == Init /\ [][NextConcurrent]_vars

\* the password hasher called directly
NextHasher ==
    \/ HashCall
    \/ VerifyPasswordCall
    \/ VerifyStoredCall

SpecHasher == Init /\ [][NextHasher]_vars

\* requests that can be cancelled while their credential is resolved
NextCancel ==
    \/ \E r \in ReqIds : Receive(r)
    \/ \E r \in ReqIds : Resolve(r)
    \/ \E r \in ReqIds : Cancel(r)
    \/ \E r \in ReqIds : Complete(r)

SpecCancel == Init /\ [][NextCancel]_vars

\* the database manager through its lifecycle, with callers asking it for
\* sessions and for the Redis client at any moment
NextDatabase ==
    \/ Connect
    \/ Disconnect
    \/ GetSessionCall
    \/ GetRedisCall

SpecDatabase == Init /\ [][NextDatabase]_vars

\* requests served by a started application, with the store sessions each
\* of them holds
NextSessions ==
    \/ Connect
    \/ \E r \in SeqReqIds : Dispatch(r)
    \/ \E r \in SeqReqIds : LoginEnter(r)
    \/ \E r \in SeqReqIds : LoginReturn(r)
    \/ \E r \in SeqReqIds : HandlerWithoutSession(r)
    \/ \E r \in SeqReqIds : Complete(r)

SpecSessions == Init /\ [][NextSessions]_vars

TypeOK ==
    /\ now \in Nat
    /\ settings \in SettingsSpace
    /\ \A r \in ReqIds : req[r].pc \in {"idle", "resolving", "cancelled", "downstream",
                                           "in_login_user", "done"}

----------------------------------------------------------------------------
(* Properties *)

\* requests that have passed through AuthMiddleware.dispatch
Dispatched == {r \in ReqIds : req[r].pc \in {"downstream", "done"}}

Protected(r) == ~IsPublic(req[r].path)

HasIdentity(r) == "current_user" \in DOMAIN req[r].state

\* the 401 answer of the gate, whatever its message
IsGate401(resp) ==
    /\ resp # NoneDict
    /\ resp.status = 401
    /\ DOMAIN resp.body = {"error", "message"}
    /\ resp.body.error = "AUTHENTICATION_ERROR"

\* C1: on a protected path the downstream handler is invoked only with an
\* identity attached; a request without a credential, or whose credential
\* resolves to none, is answered 401 AUTHENTICATION_ERROR with a message and
\* never reaches the downstream handler.
C1_ProtectedNeedsIdentity ==
    \A r \in Dispatched :
        Protected(r) =>
            /\ req[r].called_next => HasIdentity(r)
            /\ (\/ NoToken(_extract_token(req[r].headers))
                \/ (~req[r].user_data.raised /\ ~TruthyDict(req[r].user_data.value)))
               => /\ ~req[r].called_next
                  /\ ~HasIdentity(r)
                  /\ IsGate401(req[r].response)

C1_Witness ==
    \E r \in Dispatched :
        /\ req[r].path = ProfilePath
        /\ req[r].headers = NoHeaders
        /\ req[r].pc = "done"
        /\ ~req[r].called_next
        /\ req[r].response = GateReject("No authentication token provided")

\* the bearer token of a request, when its Authorization header is
\* "Bearer <token>"
BearerOf(r) == req[r].headers["Authorization"][2]

HasBearer(r) ==
    /\ "Authorization" \in DOMAIN req[r].headers
    /\ Len(req[r].headers["Authorization"]) >= 2
    /\ req[r].headers = Bearer(BearerOf(r))

\* C2: a protected request bearing a valid, unexpired access token issued
\* for a user gets that user's id attached as the identity's subject and
\* reaches the downstream handler; GET /users/profile then answers 200 with
\* the id, email and role of that user.
C2_ValidAccessTokenProfile ==
    \A r \in Dispatched : \A u \in ActiveUsers : \A t0 \in times :
        ( /\ Protected(r)
          /\ HasBearer(r)
          /\ BearerOf(r) = create_access_token(TokenData(u), t0).token
          /\ BearerOf(r).claims.exp >= req[r].at )
        => /\ req[r].called_next
           /\ HasIdentity(r)
           /\ req[r].state.current_user.sub = u.id
           /\ (req[r].path = ProfilePath /\ req[r].pc = "done")
              => /\ req[r].response.status = 200
                 /\ {"id", "email", "role"} \subseteq DOMAIN req[r].response.body
                 /\ req[r].response.body.id = u.id
                 /\ req[r].response.body.email = u.email
                 /\ req[r].response.body.role = u.role

\* C3: a protected request whose bearer credential is a valid, unexpired
\* refresh token is rejected by the gate and gets no identity attached.
C3_RefreshTokenRejectedByGate ==
    \A r \in Dispatched :
        ( /\ Protected(r)
          /\ HasBearer(r)
          /\ BearerOf(r) \in LoginRefreshTokens(times)
          /\ BearerOf(r).claims.exp >= req[r].at )
        => /\ ~req[r].called_next
           /\ ~HasIdentity(r)

\* C4: POST /auth/refresh with a token of type "access" in refresh_token is
\* answered 401 AUTHENTICATION_ERROR and carries no access token, also when
\* the token is validly signed and unexpired.
C4_AccessTokenRefusedAtRefresh ==
    \A r \in ReqIds :
        ( /\ req[r].pc = "done"
          /\ req[r].path = RefreshPath
          /\ req[r].body.refresh_token.jwt
          /\ Get(req[r].body.refresh_token.claims, "type") = "access" )
        => /\ req[r].response.status = 401
           /\ req[r].response.body.error = "AUTHENTICATION_ERROR"
           /\ "access_token" \notin DOMAIN req[r].response.body

C4_Witness ==
    \E r \in ReqIds :
        /\ req[r].pc = "done"
        /\ req[r].path = RefreshPath
        /\ req[r].body.refresh_token \in LoginAccessTokens(times)
        /\ req[r].body.refresh_token.claims.exp >= now
        /\ req[r].response.status = 401

\* a raw key whose provisioned ApiKeyRecord is active and not expired at t
ValidApiKey(raw, t) ==
    \E row \in api_keys, salt \in Salts :
        /\ row.key_hash = bcrypt(raw, salt)
        /\ row.is_active
        /\ (row.expires_at = NullTime \/ row.expires_at > t)

\* the user row owning a valid raw key
OwnerOf(raw) ==
    CHOOSE u \in users : \E row \in api_keys, salt \in Salts :
        row.key_hash = bcrypt(raw, salt) /\ row.user_id = u.id

\* C5: a protected request bearing a valid API key gets the owning user's
\* record attached as identity, tagged auth_type = "api_key", and reaches
\* the downstream handler.
C5_ValidApiKeyResolved ==
    \A r \in Dispatched :
        ( /\ Protected(r)
          /\ DOMAIN req[r].headers = {"X-API-Key"}
          /\ ValidApiKey(req[r].headers["X-API-Key"], req[r].at) )
        => /\ req[r].called_next
           /\ HasIdentity(r)
           /\ req[r].state.current_user =
                LET u == OwnerOf(req[r].headers["X-API-Key"])
                IN  [user_id |-> u.id, email |-> u.email,
                     first_name |-> u.first_name, last_name |-> u.last_name,
                     role |-> u.role, organization |-> u.organization,
                     auth_type |-> "api_key"]

\* C6: verify_token returns no claims for a token whose exp is earlier than
\* the clock at verification, whatever its signature, with no leeway; a
\* token that was accepted is rejected once the clock has passed its exp.
C6_ExpiredNeverVerifies ==
    (codec.fn # "none" /\ codec.checked /\ codec.token.jwt) =>
        /\ codec.token.claims.exp < codec.checked_at => codec.payload = NoneDict
        /\ (codec.payload # NoneDict /\ codec.token.claims.exp < now)
           => verify_token(codec.token, now) = NoneDict

C6_Witness ==
    /\ codec.fn # "none"
    /\ codec.checked
    /\ codec.token = codec.result.token
    /\ codec.token.claims.exp + 1 = codec.checked_at
    /\ codec.payload = NoneDict

\* the lifetime the codec gives a token of each type
Lifetime(fn) ==
    IF fn = "access" THEN access_token_expire_minutes
    ELSE refresh_token_expire_days * MinutesPerDay

\* C7: the token made by create_access_token / create_refresh_token from a
\* caller's dict verifies, until it expires, to claims with the caller's
\* sub and with type "access" / "refresh"; type and exp are the codec's
\* even when the caller's dict names them, and the caller's dict is left
\* as it was.
C7_CodecRoundTrip ==
    codec.fn # "none" =>
        /\ codec.result.token.claims.type = codec.fn
        /\ codec.result.token.claims.exp = codec.at + Lifetime(codec.fn)
        /\ codec.result.data = codec.data
        /\ (/\ codec.checked
            /\ codec.token = codec.result.token
            /\ codec.checked_at <= codec.result.token.claims.exp)
           => /\ codec.payload # NoneDict
              /\ codec.payload.sub = codec.data.sub
              /\ codec.payload.type = codec.fn

C7_Witness ==
    /\ codec.fn = "access"
    /\ codec.checked
    /\ codec.token = codec.result.token
    /\ "type" \in DOMAIN codec.data
    /\ codec.data.type = "refresh"
    /\ codec.payload # NoneDict
    /\ codec.payload.type = "access"

\* credentials that fail: an expired token, a token with a bad signature,
\* a garbage string, an unknown API key
FailingCredential(r) ==
    \/ /\ HasBearer(r)
       /\ \/ /\ BearerOf(r) \in LoginAccessTokens(times)
             /\ BearerOf(r).claims.exp < req[r].at
          \/ \E tok \in LoginAccessTokens(times) : BearerOf(r) = Tamper(tok)
          \/ \E t0 \in times : BearerOf(r) = AttackerSigned(t0)
          \/ BearerOf(r) = Opaque("garbage")
    \/ req[r].headers = ApiKeyHeader(Opaque("unknown-key"))

\* login attempts that fail: no such email, wrong password, inactive user
FailingLogin(body) ==
    \/ ~\E u \in users : u.email = body.email
    \/ \E u \in users : u.email = body.email
                        /\ (~u.is_active \/ ~verify_password(body.password, u.password_hash))

\* C8: every failing credential gets from the gate the very response a
\* garbage string gets, and every failing login gets the same 401
\* AUTHENTICATION_ERROR response as a login with an unknown email.
C8_UniformFailures ==
    /\ \A r \in Dispatched :
          (Protected(r) /\ FailingCredential(r)) =>
              /\ ~req[r].called_next
              /\ req[r].response =
                    dispatch(NewRequest(req[r].path, Bearer(Opaque("garbage")),
                                        NoBody, TRUE),
                             req[r].at, settings, "salt1", "salt1").response
    /\ \A r \in ReqIds :
          (req[r].pc = "done" /\ req[r].path = LoginPath /\ FailingLogin(req[r].body)) =>
              /\ req[r].response.status = 401
              /\ req[r].response.body.error = "AUTHENTICATION_ERROR"
              /\ req[r].response.body.message = "Invalid email or password"

\* C9: a lookup that raises during credential resolution is answered like
\* an invalid credential, with the gate's 401 AUTHENTICATION_ERROR.
C9_LookupFailureIs401 ==
    \A r \in Dispatched :
        (Protected(r) /\ req[r].user_data.raised) => IsGate401(req[r].response)

\* C10: when a lookup raises while a protected request is checked, no
\* identity is attached to the request and its downstream handler is not
\* invoked.
C10_FailsClosed ==
    \A r \in Dispatched :
        (Protected(r) /\ req[r].user_data.raised) =>
            /\ ~req[r].called_next
            /\ ~HasIdentity(r)

C10_Witness ==
    \E r \in Dispatched :
        /\ Protected(r)
        /\ req[r].user_data.raised
        /\ req[r].pc = "done"
        /\ req[r].response.status = 500

\* C11: a request whose path starts with a public route is handed to the
\* downstream handler without its credential being extracted or resolved
\* and without an identity attached, also when it carries a credential
\* that would resolve on a protected path.
C11_PublicBypassesGate ==
    \A r \in Dispatched :
        IsPublic(req[r].path) =>
            /\ req[r].called_next
            /\ ~HasIdentity(r)
            /\ req[r].token = NoneDict
            /\ req[r].user_data = Return(NoneDict)
            /\ (req[r].pc = "done" => ~IsGate401(req[r].response)
                                       \/ req[r].endpoint \in {"login_user", "refresh_token"})

C11_Witness ==
    \E r \in Dispatched :
        /\ req[r].path = HealthPath
        /\ req[r].headers \in {Bearer(c) : c \in LoginAccessTokens({req[r].at})}
        /\ req[r].pc = "done"
        /\ req[r].called_next
        /\ ~HasIdentity(r)
        /\ req[r].response.status = 200

\* requests answered by the route handler of the given endpoint
HandledBy(endpoint) ==
    {r \in ReqIds : req[r].pc = "done" /\ req[r].called_next
                     /\ req[r].endpoint = endpoint}

\* the active users a login body names with their own password
LoginUsers(body) ==
    {u \in users : /\ u.email = body.email
                    /\ u.is_active
                    /\ verify_password(body.password, u.password_hash)}

\* C12: with local authentication enabled, POST /auth/login with the email
\* of an active user and the password whose hash is stored for that user
\* is answered 200 with an access token whose sub is the user's id and
\* whose role is the user's role, a refresh token whose sub is the user's
\* id, token_type "bearer" and expires_in 1800.
C12_LoginIssuesTokens ==
    \A r \in HandledBy("login_user") :
        \A u \in LoginUsers(req[r].body) :
            settings.enable_local_auth =>
                /\ req[r].response.status = 200
                /\ req[r].response.body.access_token.claims.sub = u.id
                /\ req[r].response.body.access_token.claims.role = u.role
                /\ req[r].response.body.refresh_token.claims.sub = u.id
                /\ req[r].response.body.token_type = "bearer"
                /\ req[r].response.body.expires_in = 1800

\* C13: POST /auth/refresh with a refresh token that verifies, has type
\* "refresh" and a subject s is answered 200 with a new access token of
\* type "access" whose sub is s, token_type "bearer", expires_in 1800 and
\* no refresh token; with a token that fails verification, has another
\* type or lacks sub it is answered 401.
C13_RefreshIssuesAccessToken ==
    \A r \in HandledBy("refresh_token") :
        LET payload == verify_token(req[r].body.refresh_token, req[r].handled_at)
            resp == req[r].response
        IN  IF /\ TruthyDict(payload)
               /\ Get(payload, "type") = "refresh"
               /\ TruthyStr(Get(payload, "sub"))
            THEN /\ resp.status = 200
                 /\ resp.body.access_token.claims.type = "access"
                 /\ resp.body.access_token.claims.sub = payload.sub
                 /\ TruthyDict(verify_token(resp.body.access_token, req[r].handled_at))
                 /\ resp.body.token_type = "bearer"
                 /\ resp.body.expires_in = 1800
                 /\ resp.body.refresh_token = NoneDict
            ELSE /\ resp.status = 401
                 /\ resp.body.error = "AUTHENTICATION_ERROR"

C13_Witness ==
    \E r \in HandledBy("refresh_token") :
        /\ req[r].body.refresh_token \in LoginRefreshTokens(times)
        /\ req[r].handled_at > req[r].body.refresh_token.claims.exp - refresh_token_expire_days * MinutesPerDay
        /\ req[r].response.status = 200
        /\ req[r].response.body.access_token.claims.sub = "u1"
        /\ req[r].response.body.refresh_token = NoneDict

\* a refresh token without sub is refused
C13_WitnessNoSubject ==
    \E r \in HandledBy("refresh_token") :
        /\ req[r].body.refresh_token \in {RefreshTokenWithoutSub(t0) : t0 \in times}
        /\ req[r].response.status = 401
        /\ req[r].response.body.message = "Invalid refresh token payload"

\* C14: every access token issued by login or by refresh carries sub, email
\* and role, the email and the role being those of the user whose id is
\* sub.
C14_AccessTokenIdentityClaims ==
    \A r \in HandledBy("login_user") \cup HandledBy("refresh_token") :
        req[r].response.status = 200 =>
            LET claims == req[r].response.body.access_token.claims
            IN  /\ {"sub", "email", "role"} \subseteq DOMAIN claims
                /\ \E u \in users : /\ u.id = claims.sub
                                     /\ u.email = claims.email
                                     /\ u.role = claims.role

\* C15: an operation guarded by require_role(role) runs only when the
\* identity attached to the request has exactly that role; with another
\* role the call raises AuthorizationError (403) and the operation does not
\* run; without an attached identity it raises AuthenticationError (401),
\* never the authorization error.
C15_RequireRole ==
    call.fn = "require_role" =>
        IF "current_user" \notin DOMAIN call.state
        THEN /\ call.result.raised
             /\ call.result.status_code = 401
             /\ call.result.error_code = "AUTHENTICATION_ERROR"
        ELSE IF Get(call.state.current_user, "role") = call.required_role
        THEN call.result = Executed
        ELSE /\ call.result.raised
             /\ call.result.status_code = 403
             /\ call.result.error_code = "AUTHORIZATION_ERROR"

C15_Witness ==
    /\ call.fn = "require_role"
    /\ call.required_role = "admin"
    /\ "current_user" \in DOMAIN call.state
    /\ Get(call.state.current_user, "role") = "user"
    /\ call.result.raised
    /\ call.result.status_code = 403

\* a request without identity meets the guard
C15_WitnessNoIdentity ==
    /\ call.fn = "require_role"
    /\ "current_user" \notin DOMAIN call.state
    /\ call.result.raised
    /\ call.result.status_code = 401

\* the guarded operation runs for the required role
C15_WitnessExecuted ==
    /\ call.fn = "require_role"
    /\ call.required_role = "admin"
    /\ call.result = Executed

\* requests that have been received and not yet answered completely
InFlight == {r \in ReqIds : req[r].pc \in {"resolving", "downstream", "done"}}

\* what the credential of a request resolves to, when it resolves
OwnIdentities(r) ==
    {_verify_token(_extract_token(req[r].headers), req[r].at, settings,
                   salt1, salt2) : salt1 \in Salts, salt2 \in Salts}

\* C16: whatever the interleaving of two requests, the identity attached to
\* a request is the one its own credential resolves to, and a request that
\* has no resolved credential of its own has no identity.
C16_IdentityIsOwn ==
    \A r \in InFlight :
        /\ req[r].pc = "resolving" => ~HasIdentity(r)
        /\ HasIdentity(r) =>
              /\ ~NoToken(_extract_token(req[r].headers))
              /\ \E own \in OwnIdentities(r) :
                    /\ ~own.raised
                    /\ req[r].state.current_user = own.value
        /\ (req[r].pc = "done" /\ req[r].called_next) =>
              req[r].response = Ok(list_drugs(req[r]).value)

C16_Witness ==
    /\ req["r1"].pc = "downstream"
    /\ req["r2"].pc = "downstream"
    /\ HasIdentity("r1")
    /\ HasIdentity("r2")
    /\ req["r1"].state.current_user.sub = "u1"
    /\ req["r2"].state.current_user.sub = "u2"

C17_WitnessSame ==
    /\ call.fn = "verify_password"
    /\ call.plain = Opaque("seventy-two-bytes")
    /\ call.candidate = call.plain
    /\ call.hashed.salt = "salt2"
    /\ call.result

\* C18: GET /drugs/new of an authenticated client is handled by the
\* new-drugs operation, not by the '/{drug_id}' one: the answer is
\* {data, meta} with meta.page and meta.limit echoing the query parameters
\* (1 and 20 by default), and days_back outside 1..365 is answered 422.
C18_NewDrugsRoute ==
    \A r \in ReqIds :
        (/\ req[r].pc = "done"
         /\ req[r].called_next
         /\ req[r].path = NewDrugsPath
         /\ HasIdentity(r)) =>
            LET query == req[r].query
                resp == req[r].response
            IN  /\ req[r].endpoint = "get_new_drugs"
                /\ req[r].endpoint # "get_drug_details"
                /\ IF Query(query, "days_back", 30) \notin 1..365
                   THEN resp.status = 422
                   ELSE (Query(query, "page", 1) >= 1
                         /\ Query(query, "limit", 20) \in 1..100) =>
                            /\ resp.status = 200
                            /\ DOMAIN resp.body = {"data", "meta"}
                            /\ resp.body.meta.page = Query(query, "page", 1)
                            /\ resp.body.meta.limit = Query(query, "limit", 20)

\* "healthy" / "unhealthy" as the dependencies entries spell a check result
HealthWord(ok) == IF ok THEN "healthy" ELSE "unhealthy"

\* C19: GET /health reports "healthy" exactly when the database check and
\* the Redis check both succeed, "degraded" exactly when one of the two
\* succeeds and "unhealthy" exactly when neither does, and its
\* dependencies entries report each check's own result.
C19_HealthStatus ==
    \A r \in HandledBy("get_health_status") :
        LET db == check_database_health(req[r].env)
            redis == check_redis_health(req[r].env)
            body == req[r].response.body
        IN  /\ req[r].response.status = 200
            /\ body.status \in {"healthy", "degraded", "unhealthy"}
            /\ (body.status = "healthy" <=> (db /\ redis))
            /\ (body.status = "degraded" <=> (db # redis))
            /\ (body.status = "unhealthy" <=> (~db /\ ~redis))
            /\ body.dependencies.database = HealthWord(db)
            /\ body.dependencies.redis = HealthWord(redis)

C19_Witness ==
    \E r \in HandledBy("get_health_status") :
        /\ req[r].env = [engine |-> "up", redis_client |-> "down"]
        /\ req[r].response.body.status = "degraded"
        /\ req[r].response.body.dependencies.database = "healthy"
        /\ req[r].response.body.dependencies.redis = "unhealthy"

\* the fixed order of the resolution methods
ResolutionOrder ==
    <<"verify_token", "verify_cognito_token", "_verify_api_key", "_get_api_key_user">>

Rank(step) == CHOOSE i \in 1..Len(ResolutionOrder) : ResolutionOrder[i] = step

Range(seq) == {seq[i] : i \in 1..Len(seq)}

\* requests whose credential went through _verify_token
Resolving == {r \in Dispatched : Protected(r) /\ ~NoToken(req[r].token)}

\* C20: resolution calls its methods in the fixed order local JWT,
\* federated token (only when enabled), API-key lookup, and stops at the
\* first that succeeds: nothing is called after a success, a valid local
\* JWT causes no store access, and none is returned only when every
\* method that was called failed.
C20_ResolutionOrder ==
    \A r \in Resolving :
        LET steps == req[r].user_data.steps
            local == verify_token(req[r].token, req[r].at)
            cognito == verify_cognito_token(req[r].token, settings)
            lookups == {"_verify_api_key", "_get_api_key_user"}
        IN  /\ Len(steps) >= 1
            /\ steps[1] = "verify_token"
            /\ \A i \in 1..Len(steps), j \in 1..Len(steps) :
                  i < j => Rank(steps[i]) < Rank(steps[j])
            /\ TruthyDict(local) =>
                  /\ steps = <<"verify_token">>
                  /\ req[r].user_data = Attempted(Return(local), steps)
            /\ "verify_cognito_token" \in Range(steps) =>
                  settings.enable_aws_auth /\ ~TruthyDict(local)
            /\ (settings.enable_aws_auth /\ ~TruthyDict(local)) =>
                  "verify_cognito_token" \in Range(steps)
            /\ ("verify_cognito_token" \in Range(steps) /\ TruthyDict(cognito)) =>
                  /\ Range(steps) \cap lookups = {}
                  /\ req[r].user_data = Attempted(Return(cognito), steps)
            /\ Range(steps) \cap lookups # {} =>
                  /\ ~TruthyDict(local)
                  /\ settings.enable_aws_auth => ~TruthyDict(cognito)
            /\ (~req[r].user_data.raised /\ ~TruthyDict(req[r].user_data.value)) =>
                  /\ ~TruthyDict(local)
                  /\ settings.enable_aws_auth => ~TruthyDict(cognito)
                  /\ "_verify_api_key" \in Range(steps)

C20_Witness ==
    \E r \in Resolving :
        /\ settings.enable_aws_auth
        /\ req[r].token \in LoginAccessTokens({req[r].at})
        /\ req[r].user_data.steps = <<"verify_token">>
        /\ HasIdentity(r)

\* a credential that is not a local JWT is resolved by the federated step
\* and the store is not consulted
C20_WitnessFederated ==
    \E r \in Resolving :
        /\ req[r].user_data.steps = <<"verify_token", "verify_cognito_token">>
        /\ HasIdentity(r)

\* every decoding step failed and the store lookup was reached
C20_WitnessStore ==
    \E r \in Resolving :
        /\ settings.enable_aws_auth
        /\ req[r].user_data.steps
              = <<"verify_token", "verify_cognito_token", "_verify_api_key">>

\* the token is a JWT whose signature was made with the given key over the
\* claims it carries
SignedWith(token, key) ==
    token.jwt /\ token.signature = HMAC(key, token.claims)

\* the key the user pool signs its tokens with (published in its JWKS)
ProviderKey == "cognito-pool-key"

\* C21: with federated authentication enabled, the federated step resolves
\* a credential only if its signature verifies against the provider's key
\* set, and a well-formed token with a forged or invalid signature is not
\* resolved to an identity by any step.
C21_FederatedVerifiesSignature ==
    \A r \in Resolving :
        /\ (/\ HasIdentity(r)
            /\ req[r].user_data.steps = <<"verify_token", "verify_cognito_token">>)
              => SignedWith(req[r].token, ProviderKey)
        /\ (/\ req[r].token.jwt
            /\ ~SignedWith(req[r].token, secret_key)
            /\ ~SignedWith(req[r].token, ProviderKey))
              => ~HasIdentity(r)

\* the keys of an identity resolved through the API-key path
ApiKeyIdentityKeys ==
    {"user_id", "email", "first_name", "last_name", "role", "organization",
     "auth_type"}

StartsWithBearer(headers) ==
    /\ "Authorization" \in DOMAIN headers
    /\ Len(headers["Authorization"]) >= 2
    /\ headers["Authorization"][1] = Opaque("Bearer")

\* C23: on a protected path the credential is the bearer token when the
\* Authorization header starts with exactly "Bearer ", whether or not
\* X-API-Key is present; otherwise the X-API-Key value when that header is
\* present; otherwise there is none.  A request without a credential is
\* rejected as missing one.
C23_CredentialExtraction ==
    \A r \in Dispatched :
        Protected(r) =>
            LET headers == req[r].headers
                expected == IF StartsWithBearer(headers) THEN headers["Authorization"][2]
                            ELSE IF "X-API-Key" \in DOMAIN headers
                            THEN headers["X-API-Key"]
                            ELSE NoneDict
            IN  /\ ~NoToken(expected) => req[r].token = expected
                /\ NoToken(expected) =>
                      /\ NoToken(req[r].token)
                      /\ ~req[r].called_next
                      /\ req[r].response = GateReject("No authentication token provided")

C23_Witness ==
    \E r \in Dispatched :
        /\ Protected(r)
        /\ DOMAIN req[r].headers = {"Authorization", "X-API-Key"}
        /\ req[r].headers["X-API-Key"] = Opaque("key-u1")
        /\ req[r].headers["Authorization"][1] = Opaque("Bearer")
        /\ req[r].token \in LoginAccessTokens({req[r].at})
        /\ req[r].token = req[r].headers["Authorization"][2]
        /\ HasIdentity(r)

\* a lower-case scheme leaves the credential to X-API-Key
C23_WitnessLowerCase ==
    \E r \in Dispatched :
        /\ Protected(r)
        /\ DOMAIN req[r].headers = {"Authorization", "X-API-Key"}
        /\ req[r].headers["Authorization"][1] = Opaque("bearer")
        /\ req[r].token = Opaque("key-u1")

\* C24: a request cancelled while its credential is being resolved never
\* has an identity attached; request.state.current_user exists only once
\* resolution has returned a complete identity, and from that moment on:
\* no state lies between the completed resolution and the attachment.
C24_NoIdentityOnCancel ==
    \A r \in ReqIds :
        /\ req[r].pc \in {"resolving", "cancelled"} => ~HasIdentity(r)
        /\ (req[r].pc # "idle" /\ HasIdentity(r)) =>
              /\ req[r].pc \in {"downstream", "done"}
              /\ ~req[r].user_data.raised
              /\ TruthyDict(req[r].user_data.value)
              /\ req[r].state.current_user = req[r].user_data.value
        /\ (/\ req[r].pc # "idle"
            /\ ~req[r].user_data.raised
            /\ TruthyDict(req[r].user_data.value)) => HasIdentity(r)

C24_Witness ==
    \E r \in ReqIds :
        /\ req[r].pc = "cancelled"
        /\ req[r].headers \in {Bearer(c) : c \in LoginAccessTokens({0})}
        /\ ~HasIdentity(r)


----------------------------------------------------------------------------
(* Store session lifecycle and the database manager *)

\* the uses of `async with database.get_session()` that got a session
SessionUses ==
    IF call.fn = "get_session" /\ call.result.session # NoneDict
    THEN {call} ELSE {}

\* C28: a use of DatabaseManager.get_session never leaves its session open:
\* when the body completes the session is committed and then closed and
\* nothing is raised; when the body or the commit raises the transaction is
\* rolled back, the exception leaves the block and the session is closed
\* last; no session is both committed successfully and rolled back
C28_SessionLifecycle ==
    \A c \in SessionUses :
        LET r == c.result
        IN  /\ r.session.closed
            /\ r.calls[Len(r.calls)] = "close"
            /\ (c.body = "returns" /\ c.commit_ok) =>
                   /\ ~r.raised
                   /\ r.calls = <<"commit", "close">>
                   /\ r.session.tx = "committed"
            /\ (c.body # "returns" \/ ~c.commit_ok) =>
                   /\ r.raised
                   /\ r.session.tx = "rolled back"
                   /\ r.exc = (CASE c.body = "returns" -> "commit"
                                 [] c.body = "raises" -> "body"
                                 [] OTHER -> "CancelledError")
            /\ c.body = "raises" => r.calls = <<"rollback", "close">>
            /\ (c.body = "returns" /\ ~c.commit_ok) =>
                   r.calls = <<"commit", "rollback", "close">>
            /\ ~(r.session.tx = "committed" /\ "rollback" \in Range(r.calls))

\* a body that raised and a commit that raised have both been seen off with
\* rollback and close
C28_Witness ==
    \E c \in SessionUses :
        /\ c.body = "raises"
        /\ c.result.raised
        /\ c.result.session = [closed |-> TRUE, tx |-> "rolled back"]

C28_WitnessCommit ==
    \E c \in SessionUses :
        /\ c.body = "returns" /\ c.commit_ok
        /\ c.result.session = [closed |-> TRUE, tx |-> "committed"]

\* the lifecycle positions in which the manager is not connected
NotConnected == {"__init__", "connect raised", "disconnect"}

\* C29: get_session and get_redis raise RuntimeError before connect(), after
\* a connect() that raised and after disconnect(), and after disconnect()
\* the manager is back in the state it was constructed in
C29_RaisesWhenNotConnected ==
    /\ (call.fn \in {"get_session", "get_redis"} /\ call.after \in NotConnected)
          => (call.result.raised /\ call.result.exc = "RuntimeError")
    /\ database.last_call = "disconnect" =>
          /\ database.engine = None
          /\ database.async_session_factory = None
          /\ database.redis_client = None

\* the part of C29 that the code keeps: before the first connect() both
\* accessors raise RuntimeError
C29_RaisesBeforeConnect ==
    (call.fn \in {"get_session", "get_redis"} /\ call.after = "__init__")
        => (call.result.raised /\ call.result.exc = "RuntimeError")


----------------------------------------------------------------------------
(* Choice of the login backend *)

\* C30: a login consults one backend: the local one when enable_local_auth
\* is set, whether or not the provider is enabled too; the provider when
\* only enable_aws_auth is set; and none when neither is set, in which case
\* the login is answered 401 AUTHENTICATION_ERROR
C30_OneLoginBackend ==
    \A r \in HandledBy("login_user") :
        /\ Len(req[r].backends) <= 1
        /\ settings.enable_local_auth =>
              req[r].backends = <<"_authenticate_local_user">>
        /\ (~settings.enable_local_auth /\ settings.enable_aws_auth) =>
              req[r].backends = <<"_authenticate_cognito_user">>
        /\ (~settings.enable_local_auth /\ ~settings.enable_aws_auth) =>
              /\ req[r].backends = <<>>
              /\ req[r].response.status = 401
              /\ req[r].response.body.error = "AUTHENTICATION_ERROR"

\* a login with both backends enabled went to the local one only
C30_Witness ==
    \E r \in HandledBy("login_user") :
        /\ settings.enable_local_auth /\ settings.enable_aws_auth
        /\ req[r].backends = <<"_authenticate_local_user">>

C30_WitnessNeither ==
    \E r \in HandledBy("login_user") :
        /\ ~settings.enable_local_auth /\ ~settings.enable_aws_auth
        /\ req[r].response.status = 401


----------------------------------------------------------------------------
(* Resolution reads and never writes *)

\* the requests whose credential went through _verify_token
Resolved ==
    {r \in ReqIds : /\ req[r].pc \in {"downstream", "done"}
                     /\ ~IsPublic(req[r].path)
                     /\ ~NoToken(req[r].token)}

\* C26: resolving a credential writes no user and no API-key row, and
\* resolving the same credential again against the same store at the same
\* clock reading gives the same outcome
C26_ResolutionReadOnly ==
    /\ store = InitialStore
    /\ \A r \in Resolved :
          \A salt1 \in Salts, salt2 \in Salts :
              _verify_token(req[r].token, req[r].at, settings, salt1, salt2)
                  = req[r].user_data

\* a credential has been resolved to an identity and the store is as
\* provisioned
C26_Witness ==
    \E r \in Resolved :
        /\ HasIdentity(r)
        /\ store = InitialStore

C26_WitnessApiKey ==
    \E r \in Resolved :
        /\ req[r].headers = ApiKeyHeader(Opaque("key-u1"))
        /\ store = InitialStore


----------------------------------------------------------------------------
(* Malformed and absent digests *)

\* C27: verify_password returns false and does not raise when the stored
\* digest is absent or malformed
C27_VerifyNeverRaises ==
    call.fn = "verify_stored" =>
        /\ ~call.result.raised
        /\ "scheme" \notin DOMAIN call.hashed => call.result.value = FALSE

\* the part of C27 the code keeps: an absent digest is answered false
C27_AbsentDigestIsFalse ==
    (call.fn = "verify_stored" /\ call.hashed = NoneDict)
        => call.result = Return(FALSE)


----------------------------------------------------------------------------
(* Store sessions held by a request *)

\* the coroutine a request is suspended in
Awaited(r) ==
    IF req[r].pc = "in_login_user" THEN "authenticate_user" ELSE None

\* the store sessions a request holds
Held(r) == IF req[r].pc = "idle" THEN {} ELSE req[r].sessions

\* C25: a request holds at most one store session at any time, and holds a
\* session only while it awaits the lookup the session was opened for
C25_OneSessionPerLookup ==
    \A r \in ReqIds :
        /\ Cardinality(Held(r)) <= 1
        /\ \A session \in Held(r) :
              /\ session.lookup # None
              /\ session.lookup = Awaited(r)

\* the part of C25 the code keeps: never more than one session per request
C25_AtMostOneSession ==
    \A r \in ReqIds : Cardinality(Held(r)) <= 1

\* a login is suspended in authenticate_user with the injected session open
C25_WitnessInjected ==
    \E r \in ReqIds :
        /\ req[r].pc = "in_login_user"
        /\ Held(r) = {InjectedSession}

====
